---- MODULE Spec2Model ----
(***************************************************************************)
(* The Signal Painter of Util/make_sample_signal.py and its extension      *)
(* Util/make_sample_signal2.py (background reference), as a state machine: *)
(* one action per Qt / matplotlib event handler (specification Spec).      *)
(* The computations of the study modules and of the plotting template are  *)
(* followed on their own, each from its inputs to its result               *)
(* (specifications MetricsSpec, TriSpec and LineSpec).                     *)
(*                                                                         *)
(* Units.  Time is counted in half sample periods (1/(2*FS) seconds), so   *)
(* that T[i] = i/FS is the integer 2*i and x*FS is x/2.  Sample values are *)
(* fixed-point numbers in units of 1e-10 mV; a division that is not exact  *)
(* is rounded down, which stands for the rounding of float arithmetic.     *)
(* Arrays are functions on 0..N-1 (the source's indices); the empty        *)
(* sequence << >> stands for Python's None where an array is expected and  *)
(* NoIx for None where an index is expected.                               *)
(***************************************************************************)
EXTENDS Integers, Sequences, FiniteSets, TLC

\* number of samples of the Timeline (the source has N = 1250)
N == 3

\* number of events other than undo and redo that a session is followed for
MaxSteps == 3

\* np.allclose: absolute tolerance 1e-8 in value units and 1/rtol = 1/1e-5
ATOL == 100
RTOL_INV == 100000
\* atol=1e-9 seconds of on_open, in half sample periods (rounded down)
T_ATOL == 0
\* save_csv writes times with 6 decimals: units of 1e-6 s in a half sample
\* period (1/(2*FS) s = 2000e-6 s)
T_DIGITS == 2000
\* save_csv writes samples with 9 decimals: 1e-9 mV in value units
Y_DIGITS == 10

NoIx == 0 - 1
None == << >>

Idx == 0 .. (N - 1)

\* Timeline T = np.arange(N) / FS
T == [i \in Idx |-> 2 * i]

Zeros == [i \in Idx |-> 0]

\* pointer ordinates (event.ydata) that are tried
YVals == {0, 150}
\* pointer abscissas (event.xdata) that are tried: more than a sample period
\* left of the Timeline, at sample 1, more than a sample period right of it
XVals == {0 - 3, 2, 2 * (N - 1) + 3}

Abs(a) == IF a < 0 THEN 0 - a ELSE a
Min(a, b) == IF a < b THEN a ELSE b
Max(a, b) == IF a > b THEN a ELSE b

\* np.clip(a, lo, hi)
clip(a, lo, hi) == Min(Max(a, lo), hi)

\* Python's round() of num/den (den > 0): to nearest, ties to the even integer
round(num, den) ==
    LET q == num \div den
        r == num % den
    IN  IF 2 * r < den THEN q
        ELSE IF 2 * r > den THEN q + 1
        ELSE IF q % 2 = 0 THEN q ELSE q + 1

\* np.linspace(y0, y1, num)[i], num >= 2: the last element is y1 itself
linspace(y0, y1, num, i) ==
    IF i = num - 1 THEN y1 ELSE y0 + ((i * (y1 - y0)) \div (num - 1))

\* np.allclose(a, b, atol=atol) on arrays over the same index set:
\* |a - b| <= atol + rtol * |b| elementwise
allclose(a, b, atol) ==
    \A i \in DOMAIN a : Abs(a[i] - b[i]) <= atol + (Abs(b[i]) \div RTOL_INV)


(***************************************************************************)
(* CSV import.  A file is a record: whether the path can be opened, and    *)
(* the rows csv.reader yields, each a sequence of fields.  A field is a    *)
(* record: whether float() accepts its text, and the number it denotes.    *)
(***************************************************************************)
Num(a) == [num |-> TRUE, val |-> a]
Str == [num |-> FALSE, val |-> 0]

\* is_float(s) of load_csv
is_float(s) == s.num

HasTwo(row) == Len(row) >= 2

\* what load_csv makes of the first row: "none" (no row, or an empty one),
\* "header" (skipped), "data" (kept), "error" (header[1] raises IndexError)
header_case(header) ==
    IF Len(header) = 0 THEN "none"
    ELSE IF ~is_float(header[1]) THEN "header"
    ELSE IF Len(header) < 2 THEN "error"
    ELSE IF ~is_float(header[2]) THEN "header"
    ELSE "data"

\* load_csv: ok is FALSE when it raises; t and y are the arrays it returns
load_csv(f) ==
    LET header == IF f.rows = << >> THEN << >> ELSE f.rows[1]
        hc == header_case(header)
        rest == IF f.rows = << >> THEN << >> ELSE Tail(f.rows)
        kept == SelectSeq(rest, HasTwo)
        data == IF hc = "data" THEN <<header>> \o kept ELSE kept
        raises == \/ ~f.exists
                  \/ hc = "error"
                  \/ \E i \in 1 .. Len(kept) :
                        ~is_float(kept[i][1]) \/ ~is_float(kept[i][2])
                  \/ Len(data) = 0
    IN  IF raises
        THEN [ok |-> FALSE, t |-> << >>, y |-> << >>]
        ELSE [ok |-> TRUE,
              t |-> [i \in 1 .. Len(data) |-> data[i][1].val],
              y |-> [i \in 1 .. Len(data) |-> data[i][2].val]]

\* np.interp holding the sample to the left instead of interpolating
np_interp_hold(x, xp, fp) ==
    LET n == Len(xp)
    IN  IF x <= xp[1] THEN fp[1]
        ELSE IF x >= xp[n] THEN fp[n]
        ELSE LET j == CHOOSE k \in 1 .. (n - 1) : xp[k] <= x /\ x < xp[k + 1]
             IN  fp[j]

\* np.interp(x, xp, fp) for one x; xp increasing, xp and fp sequences
np_interp(x, xp, fp) ==
    LET n == Len(xp)
    IN  IF x <= xp[1] THEN fp[1]
        ELSE IF x >= xp[n] THEN fp[n]
        ELSE LET j == CHOOSE k \in 1 .. (n - 1) : xp[k] <= x /\ x < xp[k + 1]
             IN  fp[j] + (((fp[j + 1] - fp[j]) * (x - xp[j]))
                            \div (xp[j + 1] - xp[j]))

\* an array of n elements, from the sequence of its elements
arr(s) == [i \in 0 .. (Len(s) - 1) |-> s[i + 1]]

\* fit_to_grid without the resampling branch
fit_to_grid_copies(tl, yl) == arr(yl)

\* the array on_open and on_bg_load make of a loaded (t, y): resampled onto
\* the Timeline unless t is the Timeline within tolerance
fit_to_grid(tl, yl) ==
    IF Len(tl) # N \/ ~allclose(arr(tl), T, T_ATOL)
    THEN [i \in Idx |-> np_interp(T[i], tl, yl)]
    ELSE arr(yl)

\* a header row: two fields that are no numbers
HeaderRow == <<Str, Str>>

\* f"{ti:.6f}" read back by float(): ti to the nearest 1e-6 s
fmt_t(ti) == round(ti * T_DIGITS, 1) \div T_DIGITS

\* f"{yi:.9f}" read back by float(): yi to the nearest 1e-9 mV
fmt_y(yi) == Y_DIGITS * round(yi, Y_DIGITS)

\* save_csv(path, t, y): the file it writes, a header and a row per sample
save_csv(tt, yy) ==
    [exists |-> TRUE,
     rows |-> <<HeaderRow>> \o
              [i \in 1 .. N |-> <<Num(fmt_t(tt[i - 1])), Num(fmt_y(yy[i - 1]))>>]]

\* the files that are tried
\* header and one row per Timeline instant, every sample 150
FileFull ==
    [exists |-> TRUE,
     rows |-> <<HeaderRow>> \o [i \in 1 .. N |-> <<Num(T[i - 1]), Num(150)>>]]
\* no header, the two ends of the Timeline: a ramp from 0 to 150
FileEnds ==
    [exists |-> TRUE,
     rows |-> << <<Num(T[0]), Num(0)>>, <<Num(T[N - 1]), Num(150)>> >>]
\* the path cannot be opened
FileMissing == [exists |-> FALSE, rows |-> << >>]
\* a header and no data row
FileNoData == [exists |-> TRUE, rows |-> <<HeaderRow>>]
\* a data row whose second field is no number
FileBadField ==
    [exists |-> TRUE,
     rows |-> << HeaderRow, <<Num(T[0]), Num(150)>>, <<Num(T[1]), Str>> >>]

\* no header, N + 1 rows: the two ends of the Timeline and the instants
\* half way between two Timeline instants; row j (from 0) holds 30 * j * j
FileBetween ==
    [exists |-> TRUE,
     rows |-> [j \in 1 .. (N + 1) |->
                  <<Num(IF j = 1 THEN T[0]
                        ELSE IF j = N + 1 THEN T[N - 1]
                        ELSE 2 * j - 3),
                    Num(30 * (j - 1) * (j - 1))>>]]

Files == <<FileFull, FileEnds, FileMissing, FileNoData, FileBadField,
           FileBetween>>
\* the files on_open is given, and the files on_bg_load is given
OpenFiles == 1 .. 5
BgFiles == {3, 6}
\* the number that stands for the file the last on_save wrote
SavedFile == Len(Files) + 1

(***************************************************************************)
(* State of SignalPainter                                                  *)
(***************************************************************************)
VARIABLES
    t,                \* self.t, the Timeline; the handlers' operators below
                      \* read it as T, the value no handler changes
    y,                \* self.y, the Waveform
    y_before_stroke,  \* self._y_before_stroke, None or the stroke baseline
    undo_stack,       \* self.undo_stack
    redo_stack,       \* self.redo_stack
    drawing,          \* self.drawing
    last_ix,          \* self.last_ix, NoIx for None
    bg_y,             \* self.bg_y, None or the Background
    bg_visible,       \* self.bg_visible
    dialog,           \* the message box the last handler showed, "" for none
    disk,             \* the file the last on_save wrote, None for none
    \* history variables, read by the properties only
    ev,               \* the last event: handler, outcome and pointer input
    pre,              \* the state before the last event
    stroke0,          \* the stroke being followed: stage, state at its begin
    trail,            \* the undo/redo steps not yet reversed
    expect,           \* << >> or the state the last undo/redo has to restore
    saved,            \* None or the Waveform the last on_save was given
    steps,            \* number of events handled
    \* the computations of the study modules and of the metrics label, each
    \* followed on its own from its inputs to its result
    inp,              \* the inputs of the computation, None for none
    out,              \* its result, None before it has run
    pc                \* "painter", or the computation's stage

prog == <<t, y, y_before_stroke, undo_stack, redo_stack, drawing, last_ix,
          bg_y, bg_visible, dialog>>
\* the painter session: its state and its history variables
painter == <<t, y, y_before_stroke, undo_stack, redo_stack, drawing, last_ix,
             bg_y, bg_visible, dialog, disk,
             ev, pre, stroke0, trail, expect, saved, steps>>
\* a computation followed on its own
study == <<inp, out, pc>>
vars == <<t, y, y_before_stroke, undo_stack, redo_stack, drawing, last_ix,
          bg_y, bg_visible, dialog, disk,
          ev, pre, stroke0, trail, expect, saved, steps, inp, out, pc>>

\* the whole editor state, as a value
Cur == [t |-> t, y |-> y, y_before_stroke |-> y_before_stroke,
        undo_stack |-> undo_stack, redo_stack |-> redo_stack,
        drawing |-> drawing, last_ix |-> last_ix,
        bg_y |-> bg_y, bg_visible |-> bg_visible]

\* Waveform and history stacks
Hist == [y |-> y, undo_stack |-> undo_stack, redo_stack |-> redo_stack]

Front(s) == SubSeq(s, 1, Len(s) - 1)
Last(s) == s[Len(s)]

InitCur == [t |-> T, y |-> Zeros, y_before_stroke |-> None,
            undo_stack |-> << >>, redo_stack |-> << >>,
            drawing |-> FALSE, last_ix |-> NoIx,
            bg_y |-> None, bg_visible |-> TRUE]

\* no stroke is being followed
NoStroke == [stage |-> "none", s |-> InitCur, n |-> 0]

\* the events an undo is said to come "right after"
Edits == {"release", "new", "open", "bg_apply"}

\* history variables: the event, the state before it, the event count
\* (no painter handler touches a computation followed on its own)
Note(op, x, v) ==
    /\ steps < MaxSteps
    /\ steps' = steps + 1
    /\ ev' = [op |-> op, x |-> x, v |-> v, after |-> "", base |-> Zeros,
              file |-> 0]
    /\ pre' = Cur
    /\ UNCHANGED study

\* the same for a handler that loads file number k
NoteFile(op, k) ==
    /\ steps < MaxSteps
    /\ steps' = steps + 1
    /\ ev' = [op |-> op, x |-> 0, v |-> 0, after |-> "", base |-> Zeros,
              file |-> k]
    /\ pre' = Cur
    /\ UNCHANGED study

\* the same for an undo or redo that finds an entry; these walk the finite
\* stacks and are not counted.  The event also names the edit it comes right
\* after, the Waveform before that edit and the file that edit loaded
NoteHist(op) ==
    /\ UNCHANGED steps
    /\ ev' = IF ev.op \in Edits
             THEN [op |-> op, x |-> 0, v |-> 0, after |-> ev.op,
                   base |-> pre.y, file |-> ev.file]
             ELSE [op |-> op, x |-> 0, v |-> 0, after |-> "",
                   base |-> Zeros, file |-> 0]
    /\ pre' = Cur
    /\ UNCHANGED study

\* history variables of undo (op = "undo") and redo (op = "redo"): a step
\* that reverses the last step of the trail has to restore the state h that
\* step started from; k is the depth of the steps reversed since h (k undos
\* followed by k redos, or the reverse)
Walk(op, other) ==
    IF trail # << >> /\ Last(trail).op = other
    THEN /\ expect' = <<[h |-> Last(trail).h, k |-> Last(trail).k]>>
         /\ trail' = IF Len(trail) = 1 THEN << >>
                     ELSE [Front(trail) EXCEPT ![Len(trail) - 1].k =
                               Max(@, Last(trail).k + 1)]
    ELSE /\ expect' = << >>
         /\ trail' = Append(trail, [op |-> op, h |-> Hist, k |-> 1])

\* history variables of a handler that is neither mouse editing nor
\* undo / redo: a stroke that has just ended is followed for this one event
Interrupts ==
    /\ stroke0' = IF stroke0.stage = "ended"
                  THEN [stroke0 EXCEPT !.stage = "after"] ELSE NoStroke
    /\ trail' = << >>
    /\ expect' = << >>

\* history variables of on_motion: the stroke goes on
InStroke ==
    /\ stroke0' = IF stroke0.stage = "open" /\ drawing
                  THEN [stroke0 EXCEPT !.n = @ + 1] ELSE NoStroke
    /\ trail' = << >>
    /\ expect' = << >>

\* the painter after SignalPainter.__init__
Idle ==
    /\ t = T
    /\ y = Zeros
    /\ y_before_stroke = None
    /\ undo_stack = << >>
    /\ redo_stack = << >>
    /\ drawing = FALSE
    /\ last_ix = NoIx
    /\ bg_y = None
    /\ bg_visible = TRUE
    /\ dialog = ""
    /\ disk = None
    /\ saved = None
    /\ ev = [op |-> "init", x |-> 0, v |-> 0, after |-> "", base |-> Zeros,
             file |-> 0]
    /\ pre = InitCur
    /\ stroke0 = NoStroke
    /\ trail = << >>
    /\ expect = << >>
    /\ steps = 0

Init ==
    /\ Idle
    /\ inp = None
    /\ out = None
    /\ pc = "painter"

(***************************************************************************)
(* Mouse editing                                                           *)
(***************************************************************************)
\* point_ix without the two np.clip calls
point_ix_unclamped(xdata) == round(xdata, 2)

\* the sample index apply_point uses for event.xdata
point_ix(xdata) ==
    LET x == clip(xdata, T[0], T[N - 1])
    IN  clip(round(x, 2), 0, N - 1)

\* apply_point: the Waveform and last_ix it leaves
apply_point(yy, last, xdata, ydata, interpolate) ==
    LET ix == point_ix(xdata)
    IN  IF interpolate /\ last # NoIx /\ last # ix
        THEN LET lo == Min(last, ix)
                 hi == Max(last, ix)
                 y0 == yy[last]
                 y1 == ydata
             IN  [y |-> IF hi > lo
                        THEN [i \in Idx |->
                                 IF lo <= i /\ i <= hi
                                 THEN linspace(y0, y1, hi - lo + 1, i - lo)
                                 ELSE yy[i]]
                        ELSE yy,
                  last_ix |-> ix]
        ELSE [y |-> [yy EXCEPT ![ix] = ydata], last_ix |-> ix]

\* on_press keeping self.y itself as the baseline, not a copy: the write of
\* apply_point shows in the baseline
on_press_aliased(xdata, ydata) ==
    LET r == apply_point(y, last_ix, xdata, ydata, FALSE)
    IN  /\ drawing' = TRUE
        /\ y_before_stroke' = r.y
        /\ redo_stack' = << >>
        /\ y' = r.y
        /\ last_ix' = r.last_ix
        /\ dialog' = ""
        /\ UNCHANGED <<undo_stack, bg_y, bg_visible, disk, saved, t>>
        /\ Note("press", xdata, ydata)
        /\ stroke0' = [stage |-> "open", s |-> Cur, n |-> 0]
        /\ trail' = << >>
        /\ expect' = << >>

\* on_press; its early returns are the guard: the event is inside the axes
\* and comes from the left button
on_press(xdata, ydata) ==
    LET r == apply_point(y, last_ix, xdata, ydata, FALSE)
    IN  /\ drawing' = TRUE
        /\ y_before_stroke' = y
        /\ redo_stack' = << >>
        /\ y' = r.y
        /\ last_ix' = r.last_ix
        /\ dialog' = ""
        /\ UNCHANGED <<undo_stack, bg_y, bg_visible, disk, saved, t>>
        /\ Note("press", xdata, ydata)
        /\ stroke0' = [stage |-> "open", s |-> Cur, n |-> 0]
        /\ trail' = << >>
        /\ expect' = << >>

\* on_motion taking an undo snapshot at every point of the drag
on_motion_per_point(xdata, ydata) ==
    /\ IF drawing
       THEN LET r == apply_point(y, last_ix, xdata, ydata, TRUE)
            IN  /\ y' = r.y
                /\ last_ix' = r.last_ix
                /\ undo_stack' = Append(undo_stack, y)
                /\ Note("motion", xdata, ydata)
       ELSE /\ UNCHANGED <<y, last_ix, undo_stack>>
            /\ Note("motion_idle", 0, 0)
    /\ dialog' = ""
    /\ UNCHANGED <<y_before_stroke, redo_stack, drawing, bg_y, bg_visible,
                   disk, saved, t>>
    /\ InStroke

\* on_motion without the test of self.drawing
on_motion_always(xdata, ydata) ==
    /\ LET r == apply_point(y, last_ix, xdata, ydata, TRUE)
       IN  /\ y' = r.y
           /\ last_ix' = r.last_ix
           /\ Note(IF drawing THEN "motion" ELSE "motion_idle", xdata, ydata)
    /\ dialog' = ""
    /\ UNCHANGED <<y_before_stroke, undo_stack, redo_stack, drawing,
                   bg_y, bg_visible, disk, saved, t>>
    /\ InStroke

\* on_motion; the event is inside the axes (xdata and ydata are not None)
on_motion(xdata, ydata) ==
    /\ IF drawing
       THEN LET r == apply_point(y, last_ix, xdata, ydata, TRUE)
            IN  /\ y' = r.y
                /\ last_ix' = r.last_ix
                /\ Note("motion", xdata, ydata)
       ELSE /\ UNCHANGED <<y, last_ix>>
            /\ Note("motion_idle", 0, 0)
    /\ dialog' = ""
    /\ UNCHANGED <<y_before_stroke, undo_stack, redo_stack, drawing,
                   bg_y, bg_visible, disk, saved, t>>
    /\ InStroke

\* stroke_end pushing the Waveform as drawn instead of the baseline
stroke_end_pushes_current(baseline, yy, undo) ==
    IF baseline # None /\ ~allclose(baseline, yy, ATOL)
    THEN Append(undo, yy)
    ELSE undo

\* stroke_end without the np.allclose test
stroke_end_always(baseline, yy, undo) ==
    IF baseline # None THEN Append(undo, baseline) ELSE undo

\* on_release, "push undo snapshot if changed": the undo stack it leaves
stroke_end(baseline, yy, undo) ==
    IF baseline # None /\ ~allclose(baseline, yy, ATOL)
    THEN Append(undo, baseline)
    ELSE undo

on_release ==
    /\ IF ~drawing
       THEN /\ UNCHANGED <<drawing, last_ix, undo_stack, y_before_stroke>>
            /\ Note("release_idle", 0, 0)
       ELSE /\ drawing' = FALSE
            /\ last_ix' = NoIx
            /\ undo_stack' = stroke_end(y_before_stroke, y, undo_stack)
            /\ y_before_stroke' = None
            /\ Note("release", 0, 0)
    /\ dialog' = ""
    /\ UNCHANGED <<y, redo_stack, bg_y, bg_visible, disk, saved, t>>
    /\ stroke0' = IF stroke0.stage = "open" /\ drawing
                  THEN [stroke0 EXCEPT !.stage = "ended"] ELSE NoStroke
    /\ trail' = << >>
    /\ expect' = << >>

(***************************************************************************)
(* Commands.  Each handler's effect on the Waveform and the two stacks is  *)
(* an operator on (y, undo_stack, redo_stack).                             *)
(***************************************************************************)
\* push_undo without redo_stack.clear()
push_undo_keeps_redo(yy, undo, redo) ==
    [y |-> yy, undo_stack |-> Append(undo, yy), redo_stack |-> redo]

\* push_undo
push_undo(yy, undo, redo) ==
    [y |-> yy, undo_stack |-> Append(undo, yy), redo_stack |-> << >>]

\* on_new pushing self.y itself, not a copy: y[:] = 0.0 zeroes the snapshot
new_result_aliased(yy, undo, redo) ==
    [y |-> Zeros, undo_stack |-> Append(undo, Zeros), redo_stack |-> << >>]

\* on_new (confirm_discard() is always True)
new_result(yy, undo, redo) ==
    [push_undo(yy, undo, redo) EXCEPT !.y = Zeros]

on_new ==
    LET r == new_result(y, undo_stack, redo_stack)
    IN  /\ y' = r.y
        /\ undo_stack' = r.undo_stack
        /\ redo_stack' = r.redo_stack
        /\ dialog' = ""
        /\ UNCHANGED <<y_before_stroke, drawing, last_ix, bg_y, bg_visible,
                       disk, saved, t>>
        /\ Note("new", 0, 0)
        /\ Interrupts

\* on_undo saving the Waveform for redo after overwriting it
undo_result_saves_late(yy, undo, redo) ==
    IF undo = << >>
    THEN [y |-> yy, undo_stack |-> undo, redo_stack |-> redo]
    ELSE [y |-> Last(undo), undo_stack |-> Front(undo),
          redo_stack |-> Append(redo, Last(undo))]

\* on_undo saving the Waveform for redo before looking at the undo stack
undo_result_saves_early(yy, undo, redo) ==
    IF undo = << >>
    THEN [y |-> yy, undo_stack |-> undo, redo_stack |-> Append(redo, yy)]
    ELSE [y |-> Last(undo), undo_stack |-> Front(undo),
          redo_stack |-> Append(redo, yy)]

\* on_undo
undo_result(yy, undo, redo) ==
    IF undo = << >>
    THEN [y |-> yy, undo_stack |-> undo, redo_stack |-> redo]
    ELSE [y |-> Last(undo), undo_stack |-> Front(undo),
          redo_stack |-> Append(redo, yy)]

on_undo ==
    LET r == undo_result(y, undo_stack, redo_stack)
    IN  /\ y' = r.y
        /\ undo_stack' = r.undo_stack
        /\ redo_stack' = r.redo_stack
        /\ dialog' = ""
        /\ UNCHANGED <<y_before_stroke, drawing, last_ix, bg_y, bg_visible,
                       disk, saved, t>>
        /\ IF undo_stack = << >>
           THEN /\ Note("undo_empty", 0, 0)
                /\ UNCHANGED trail
                /\ expect' = << >>
           ELSE /\ NoteHist("undo")
                /\ Walk("undo", "redo")
        /\ stroke0' = IF stroke0.stage = "ended"
                      THEN [stroke0 EXCEPT !.stage = "after"] ELSE NoStroke

\* on_redo
redo_result(yy, undo, redo) ==
    IF redo = << >>
    THEN [y |-> yy, undo_stack |-> undo, redo_stack |-> redo]
    ELSE [y |-> Last(redo), undo_stack |-> Append(undo, yy),
          redo_stack |-> Front(redo)]

on_redo ==
    LET r == redo_result(y, undo_stack, redo_stack)
    IN  /\ y' = r.y
        /\ undo_stack' = r.undo_stack
        /\ redo_stack' = r.redo_stack
        /\ dialog' = ""
        /\ UNCHANGED <<y_before_stroke, drawing, last_ix, bg_y, bg_visible,
                       disk, saved, t>>
        /\ IF redo_stack = << >>
           THEN /\ Note("redo_empty", 0, 0)
                /\ UNCHANGED trail
                /\ expect' = << >>
           ELSE /\ NoteHist("redo")
                /\ Walk("redo", "undo")
        /\ stroke0' = IF stroke0.stage = "ended"
                      THEN [stroke0 EXCEPT !.stage = "after"] ELSE NoStroke

\* on_open calling push_undo before load_csv
open_result_pushes_first(f, yy, undo, redo) ==
    LET r == load_csv(f)
        p == push_undo(yy, undo, redo)
    IN  [ok |-> r.ok,
         y |-> IF r.ok THEN fit_to_grid(r.t, r.y) ELSE yy,
         undo_stack |-> p.undo_stack, redo_stack |-> p.redo_stack]

\* on_open without the push_undo of the direct-copy branch
open_result_copy_unpushed(f, yy, undo, redo) ==
    LET r == load_csv(f)
    IN  IF ~r.ok
        THEN [ok |-> FALSE, y |-> yy, undo_stack |-> undo, redo_stack |-> redo]
        ELSE IF Len(r.t) # N \/ ~allclose(arr(r.t), T, T_ATOL)
        THEN [ok |-> TRUE, y |-> fit_to_grid(r.t, r.y),
              undo_stack |-> push_undo(yy, undo, redo).undo_stack,
              redo_stack |-> push_undo(yy, undo, redo).redo_stack]
        ELSE [ok |-> TRUE, y |-> arr(r.y),
              undo_stack |-> undo, redo_stack |-> redo]

\* on_open after the file dialog: ok is FALSE when load_csv raised and the
\* handler returned after the message box
\* (make_sample_signal2.py calls push_undo once before the branch instead of
\* once in each branch: the same effect)
open_result(f, yy, undo, redo) ==
    LET r == load_csv(f)
    IN  IF ~r.ok
        THEN [ok |-> FALSE, y |-> yy, undo_stack |-> undo, redo_stack |-> redo]
        ELSE IF Len(r.t) # N \/ ~allclose(arr(r.t), T, T_ATOL)
        THEN [ok |-> TRUE, y |-> fit_to_grid(r.t, r.y),
              undo_stack |-> push_undo(yy, undo, redo).undo_stack,
              redo_stack |-> push_undo(yy, undo, redo).redo_stack]
        ELSE [ok |-> TRUE, y |-> arr(r.y),
              undo_stack |-> push_undo(yy, undo, redo).undo_stack,
              redo_stack |-> push_undo(yy, undo, redo).redo_stack]

\* the file the dialog's path names: one of Files, or the one on_save wrote
FileAt(k) == IF k = SavedFile THEN disk ELSE Files[k]

\* on_open; a cancelled file dialog (no path) is the guard
on_open(k) ==
    LET r == open_result(FileAt(k), y, undo_stack, redo_stack)
    IN  /\ y' = r.y
        /\ undo_stack' = r.undo_stack
        /\ redo_stack' = r.redo_stack
        /\ IF r.ok
           THEN dialog' = "" /\ NoteFile("open", k)
           ELSE dialog' = "Open failed" /\ NoteFile("open_fail", k)
        /\ UNCHANGED <<y_before_stroke, drawing, last_ix, bg_y, bg_visible,
                       disk, saved, t>>
        /\ Interrupts

\* on_save; a cancelled file dialog is the guard.  ok is whether the file
\* could be written; when open() raises nothing is written
on_save(ok) ==
    /\ IF ok
       THEN /\ disk' = save_csv(t, y)
            /\ saved' = y
            /\ dialog' = ""
            /\ Note("save", 0, 0)
       ELSE /\ UNCHANGED <<disk, saved>>
            /\ dialog' = "Save failed"
            /\ Note("save_fail", 0, 0)
    /\ UNCHANGED <<t, y, y_before_stroke, undo_stack, redo_stack, drawing,
                   last_ix, bg_y, bg_visible>>
    /\ Interrupts

(***************************************************************************)
(* Background handlers (make_sample_signal2.py)                            *)
(***************************************************************************)
on_bg_load(k) ==
    LET r == load_csv(Files[k])
    IN  /\ IF ~r.ok
           THEN /\ dialog' = "Load Background failed"
                /\ UNCHANGED <<bg_y, bg_visible>>
                /\ NoteFile("bg_load_fail", k)
           ELSE /\ bg_y' = fit_to_grid(r.t, r.y)
                /\ bg_visible' = TRUE
                /\ dialog' = ""
                /\ NoteFile("bg_load", k)
        /\ UNCHANGED <<y, y_before_stroke, undo_stack, redo_stack, drawing,
                       last_ix, disk, saved, t>>
        /\ Interrupts

\* on_bg_toggle dropping the Background when it hides it
on_bg_toggle_drops ==
    /\ IF bg_y = None
       THEN /\ dialog' = "Background"
            /\ UNCHANGED <<bg_visible, bg_y>>
            /\ Note("bg_toggle_none", 0, 0)
       ELSE /\ bg_visible' = ~bg_visible
            /\ bg_y' = IF bg_visible THEN None ELSE bg_y
            /\ dialog' = ""
            /\ Note("bg_toggle", 0, 0)
    /\ UNCHANGED <<y, y_before_stroke, undo_stack, redo_stack, drawing,
                   last_ix, disk, saved, t>>
    /\ Interrupts

on_bg_toggle ==
    /\ IF bg_y = None
       THEN /\ dialog' = "Background"
            /\ UNCHANGED bg_visible
            /\ Note("bg_toggle_none", 0, 0)
       ELSE /\ bg_visible' = ~bg_visible
            /\ dialog' = ""
            /\ Note("bg_toggle", 0, 0)
    /\ UNCHANGED <<y, y_before_stroke, undo_stack, redo_stack, drawing,
                   last_ix, bg_y, disk, saved, t>>
    /\ Interrupts

\* on_bg_apply without self.push_undo()
on_bg_apply_unpushed ==
    /\ IF bg_y = None
       THEN /\ dialog' = "Apply Background"
            /\ UNCHANGED y
            /\ Note("bg_apply_none", 0, 0)
       ELSE /\ y' = bg_y
            /\ dialog' = ""
            /\ Note("bg_apply", 0, 0)
    /\ UNCHANGED <<undo_stack, redo_stack, y_before_stroke, drawing, last_ix,
                   bg_y, bg_visible, disk, saved, t>>
    /\ Interrupts

on_bg_apply ==
    LET p == push_undo(y, undo_stack, redo_stack)
    IN  /\ IF bg_y = None
           THEN /\ dialog' = "Apply Background"
                /\ UNCHANGED <<y, undo_stack, redo_stack>>
                /\ Note("bg_apply_none", 0, 0)
           ELSE /\ undo_stack' = p.undo_stack
                /\ redo_stack' = p.redo_stack
                /\ y' = bg_y
                /\ dialog' = ""
                /\ Note("bg_apply", 0, 0)
        /\ UNCHANGED <<y_before_stroke, drawing, last_ix, bg_y, bg_visible,
                       disk, saved, t>>
        /\ Interrupts

(***************************************************************************)
(* The events of a session                                                 *)
(***************************************************************************)
\* the left button goes down only when it is up: while drawing is set no
\* button has been released since the left button went down
Press == ~drawing /\ \E x \in XVals, v \in YVals : on_press(x, v)
Motion == \E x \in XVals, v \in YVals : on_motion(x, v)
Release == on_release
New == on_new
Undo == on_undo
Redo == on_redo
Open ==
    \E k \in OpenFiles \cup {SavedFile} :
        (k = SavedFile => disk # None) /\ on_open(k)
Save == \E ok \in BOOLEAN : on_save(ok)
BgLoad == \E k \in BgFiles : on_bg_load(k)
BgToggle == on_bg_toggle
BgApply == on_bg_apply

Next ==
    \/ Press
    \/ Motion
    \/ Release
    \/ New
    \/ Undo
    \/ Redo
    \/ Open
    \/ Save
    \/ BgLoad
    \/ BgToggle
    \/ BgApply

Spec == Init /\ [][Next]_vars

(***************************************************************************)
(* Pearson r and the metrics label.  A series is a record: a sequence v of *)
(* integers and a denominator d; sample i is v[i]/d in units of 1e-12 mV,  *)
(* so that the thresholds 1e-12 and 1e-15 and series below either of them  *)
(* are within TLC's integers.  The arithmetic is exact: a coefficient is   *)
(* kept as num / sqrt(den2), an SNR as the ratio sig2 / err2 of the mean   *)
(* squares (the SNR is 10*log10 of it).  Float rounding is not modelled.   *)
(***************************************************************************)
\* length of the series that are tried
M == 3
\* the samples (numerators) and the denominators that are tried
SVals == {0, 1, 4}
Scales == {1, 2000}
Series == [1 .. M -> SVals]

\* 1e-12, the threshold of the study modules
STUDY_EPS == 1
\* 1/1e-15 in units of 1e-12 mV: the threshold of the metrics label is 1/1000
PAINTER_EPS_INV == 1000

RECURSIVE Sum(_)
Sum(s) == IF s = << >> THEN 0 ELSE s[1] + Sum(Tail(s))

Dot(a, b) == Sum([i \in 1 .. Len(a) |-> a[i] * b[i]])

\* n^2 times the variance and the covariance of numerators
VarN(v) == Len(v) * Dot(v, v) - Sum(v) * Sum(v)
CovN(a, b) == Len(a) * Dot(a, b) - Sum(a) * Sum(b)

\* np.std(s) < en/ed
std_lt(s, en, ed) ==
    LET k == Len(s.v) * s.d * en
    IN  VarN(s.v) * ed * ed < k * k

\* np.sqrt(np.mean(s*s)) < en/ed
rms_lt(s, en, ed) ==
    Dot(s.v, s.v) * ed * ed < Len(s.v) * s.d * s.d * en * en

\* s - np.mean(s)
center(s) ==
    [v |-> [i \in 1 .. Len(s.v) |-> Len(s.v) * s.v[i] - Sum(s.v)],
     d |-> Len(s.v) * s.d]

\* a - b for series of one denominator
minus(a, b) == [v |-> [i \in 1 .. Len(a.v) |-> a.v[i] - b.v[i]], d |-> a.d]

\* -s
neg(s) == [v |-> [i \in 1 .. Len(s.v) |-> 0 - s.v[i]], d |-> s.d]

NaN == [nan |-> TRUE, num |-> 0, den2 |-> 0]

\* np.corrcoef giving the magnitude of the covariance
corrcoef_unsigned(a, b) ==
    IF VarN(a.v) = 0 \/ VarN(b.v) = 0
    THEN NaN
    ELSE [nan |-> FALSE, num |-> Abs(CovN(a.v, b.v)),
          den2 |-> VarN(a.v) * VarN(b.v)]

\* np.corrcoef(a, b)[0, 1]: cov / (std * std); nan (0/0) for a zero variance
corrcoef(a, b) ==
    IF VarN(a.v) = 0 \/ VarN(b.v) = 0
    THEN NaN
    ELSE [nan |-> FALSE, num |-> CovN(a.v, b.v),
          den2 |-> VarN(a.v) * VarN(b.v)]

\* the coefficient r equals k, for k = 1 or k = -1
IsR(r, k) == ~r.nan /\ r.num * k > 0 /\ r.num * r.num = r.den2

\* PearsonLinearOnlyDemo.on_update: r of (x, y)
pearson_linear(x, yy, detrend) ==
    LET a == IF detrend THEN center(x) ELSE x
        b == IF detrend THEN center(yy) ELSE yy
    IN  IF std_lt(a, STUDY_EPS, 1) \/ std_lt(b, STUDY_EPS, 1)
        THEN NaN ELSE corrcoef(a, b)

\* ECG60HzControlStudy.on_update: r of (y1, y2)
pearson_sine(y1, y2) ==
    IF std_lt(y1, STUDY_EPS, 1) \/ std_lt(y2, STUDY_EPS, 1)
    THEN NaN ELSE corrcoef(center(y1), center(y2))

\* ECGTriPulseControlStudy.on_update: r of (y1, y2)
pearson_tri(y1, y2) ==
    IF std_lt(y1, STUDY_EPS, 1) \/ std_lt(y2, STUDY_EPS, 1)
    THEN NaN ELSE corrcoef(center(y1), center(y2))

NoSnr == [kind |-> "none", sig2 |-> 0, err2 |-> 0]
Blank == [shown |-> FALSE, r |-> NaN, rmse2 |-> 0, snr |-> NoSnr]

\* metrics testing the signal RMS before the error RMS
metrics_sig_first(checked, yy, bg) ==
    LET err == minus(yy, bg)
    IN  IF ~checked THEN Blank
        ELSE [shown |-> TRUE,
              r |-> IF std_lt(yy, 1, PAINTER_EPS_INV)
                       \/ std_lt(bg, 1, PAINTER_EPS_INV)
                    THEN NaN ELSE corrcoef(yy, bg),
              rmse2 |-> Dot(err.v, err.v),
              snr |-> IF rms_lt(bg, 1, PAINTER_EPS_INV)
                      THEN [NoSnr EXCEPT !.kind = "-inf"]
                      ELSE IF rms_lt(err, 1, PAINTER_EPS_INV)
                      THEN [NoSnr EXCEPT !.kind = "inf"]
                      ELSE [kind |-> "finite", sig2 |-> Dot(bg.v, bg.v),
                            err2 |-> Dot(err.v, err.v)]]

\* SignalPainter.update_metrics_label for a Background that is set (of the
\* Waveform's size): what the label shows of r, RMSE (as the sum of the
\* squared errors) and SNR; checked is chk_metrics.isChecked()
metrics(checked, yy, bg) ==
    LET err == minus(yy, bg)
    IN  IF ~checked THEN Blank
        ELSE [shown |-> TRUE,
              r |-> IF std_lt(yy, 1, PAINTER_EPS_INV)
                       \/ std_lt(bg, 1, PAINTER_EPS_INV)
                    THEN NaN ELSE corrcoef(yy, bg),
              rmse2 |-> Dot(err.v, err.v),
              snr |-> IF rms_lt(err, 1, PAINTER_EPS_INV)
                      THEN [NoSnr EXCEPT !.kind = "inf"]
                      ELSE IF rms_lt(bg, 1, PAINTER_EPS_INV)
                      THEN [NoSnr EXCEPT !.kind = "-inf"]
                      ELSE [kind |-> "finite", sig2 |-> Dot(bg.v, bg.v),
                            err2 |-> Dot(err.v, err.v)]]

\* the four computations, each from two series to its result
on_update_linear ==
    /\ pc = "ready"
    /\ \E detrend \in BOOLEAN :
          out' = [by |-> "linear", detrend |-> detrend, shown |-> TRUE,
                  r |-> pearson_linear(inp.x, inp.y, detrend),
                  rmse2 |-> 0, snr |-> NoSnr]
    /\ pc' = "done"
    /\ UNCHANGED <<inp, painter>>

on_update_sine ==
    /\ pc = "ready"
    /\ out' = [by |-> "sine", detrend |-> TRUE, shown |-> TRUE,
               r |-> pearson_sine(inp.x, inp.y), rmse2 |-> 0, snr |-> NoSnr]
    /\ pc' = "done"
    /\ UNCHANGED <<inp, painter>>

on_update_tri ==
    /\ pc = "ready"
    /\ out' = [by |-> "tri", detrend |-> TRUE, shown |-> TRUE,
               r |-> pearson_tri(inp.x, inp.y), rmse2 |-> 0, snr |-> NoSnr]
    /\ pc' = "done"
    /\ UNCHANGED <<inp, painter>>

update_metrics_label ==
    /\ pc = "ready"
    /\ \E checked \in BOOLEAN :
          LET m == metrics(checked, inp.x, inp.y)
          IN  out' = [by |-> "metrics", detrend |-> FALSE, shown |-> m.shown,
                      r |-> m.r, rmse2 |-> m.rmse2, snr |-> m.snr]
    /\ pc' = "done"
    /\ UNCHANGED <<inp, painter>>

\* the inputs: two series of one denominator, the second any series or the
\* negation of the first
MetricsInit ==
    /\ Idle
    /\ pc = "ready"
    /\ out = None
    /\ \E a \in Series, k \in Scales :
          \E b \in Series \cup {neg([v |-> a, d |-> k]).v} :
              inp = [x |-> [v |-> a, d |-> k], y |-> [v |-> b, d |-> k]]

MetricsNext ==
    \/ on_update_linear
    \/ on_update_sine
    \/ on_update_tri
    \/ update_metrics_label

MetricsSpec == MetricsInit /\ [][MetricsNext]_vars

(***************************************************************************)
(* The triangle pulse train of ECGTriPulseControlStudy, one sample at a    *)
(* time.  The position f*t + phase/(2*pi) of a sample is counted in        *)
(* 1/TRI_STEPS of a period; a value is a fraction num/den in units of      *)
(* 1e-3 mV, in which amp_mV = amp_uv * 1e-3 is the number amp_uv.          *)
(***************************************************************************)
\* positions per period
TRI_STEPS == 20
\* f*t, over two periods, and the phase offsets that are tried
TriTimes == 0 .. (2 * TRI_STEPS - 1)
TriPhases == {0 - (TRI_STEPS - 1), 0, 7}
TriAmps == {0, 1, 3}
\* duty_pct and width_pct, values outside the controls' ranges included
TriDuties == {0 - 5, 0, 20, 50, 100, 150}
TriWidths == {0 - 5, 0, 25, 50, 100, 120}

\* duty = np.clip(duty_pct, 0.1, 99.9) / 100, in 1/1000
tri_duty(duty_pct) == clip(duty_pct * 10, 1, 999)
\* apex = np.clip(width_pct, 1.0, 99.0) / 100, in 1/100
tri_apex(width_pct) == clip(width_pct, 1, 99)

\* frac by a remainder that keeps the sign of the position (np.fmod)
tri_frac_fmod(pos) ==
    IF pos < 0 THEN 0 - ((0 - pos) % TRI_STEPS) ELSE pos % TRI_STEPS

\* frac = (...) % 1.0 of numpy: in [0, 1) also for a negative position
tri_frac(pos) == pos % TRI_STEPS

\* _tri_pulse without the mask "on": the falling edge is computed for the
\* samples beyond the duty as well
tri_pulse_unmasked(pos, amp_uv, duty_pct, width_pct) ==
    LET duty == tri_duty(duty_pct)
        apex == tri_apex(width_pct)
        fr == tri_frac(pos)
        un == fr * 1000
        ud == TRI_STEPS * duty
    IN  IF un * 100 <= apex * ud
        THEN [num |-> amp_uv * un * 100, den |-> ud * apex]
        ELSE [num |-> amp_uv * (ud - un) * 100, den |-> ud * (100 - apex)]

\* _tri_pulse, the sample at position pos: u = frac/duty is un/ud; a sample
\* that is not "on" keeps the 0.0 of np.zeros_like; the guards apex > 1e-6
\* and 1 - apex > 1e-6 are apex > 0 and 100 - apex > 0 in 1/100
tri_pulse(pos, amp_uv, duty_pct, width_pct) ==
    LET duty == tri_duty(duty_pct)
        apex == tri_apex(width_pct)
        fr == tri_frac(pos)
        on == fr * 1000 < duty * TRI_STEPS
        un == fr * 1000
        ud == TRI_STEPS * duty
    IN  IF ~on THEN [num |-> 0, den |-> 1]
        ELSE IF un * 100 <= apex * ud
        THEN IF apex > 0
             THEN [num |-> amp_uv * un * 100, den |-> ud * apex]
             ELSE [num |-> 0, den |-> 1]
        ELSE IF 100 - apex > 0
             THEN [num |-> amp_uv * (ud - un) * 100, den |-> ud * (100 - apex)]
             ELSE [num |-> 0, den |-> 1]

TriPulse ==
    /\ pc = "tri_ready"
    /\ out' = tri_pulse(inp.ft + inp.ph, inp.amp, inp.duty, inp.width)
    /\ pc' = "tri_done"
    /\ UNCHANGED <<inp, painter>>

TriInit ==
    /\ Idle
    /\ pc = "tri_ready"
    /\ out = None
    /\ inp \in [ft : TriTimes, ph : TriPhases, amp : TriAmps,
                 duty : TriDuties, width : TriWidths]

TriNext == TriPulse

TriSpec == TriInit /\ [][TriNext]_vars

(***************************************************************************)
(* _to_xy_label of the plotting template.  A Python value is a record:     *)
(* k is "num" (v a number), "str" (v a string), or "list", "tuple",        *)
(* "ndarray" (v the sequence of its items, themselves values).             *)
(***************************************************************************)
\* greatest length of a bare y that is tried
MaxLen == 3
LineVals == {1, 2}

PyNum(a) == [k |-> "num", v |-> a]
PyStr(a) == [k |-> "str", v |-> a]
PySeq(kind, items) == [k |-> kind, v |-> items]
\* a sequence of numbers as a Python list, tuple or array of floats
PyNums(kind, s) == PySeq(kind, [i \in 1 .. Len(s) |-> PyNum(s[i])])

\* np.asarray(a, float) for a number or a sequence of numbers: a 0-d array
\* for a number (dim 0), else the array of the items
asarray(a) ==
    IF a.k = "num"
    THEN [dim |-> 0, v |-> <<a.v>>]
    ELSE [dim |-> 1, v |-> [i \in 1 .. Len(a.v) |-> a.v[i].v]]

\* len(y) of an array: its number of items (a 0-d array has no len())
arange(n) == [dim |-> 1, v |-> [i \in 1 .. n |-> i - 1]]

\* str(label): the string itself, or the text of another value
str(a) == IF a.k = "str" THEN a.v ELSE <<"str of", a>>

NoLabel == [none |-> TRUE, text |-> ""]

\* _to_xy_label
to_xy_label(line) ==
    IF line.k \in {"list", "tuple"} /\ Len(line.v) = 3
    THEN [x |-> asarray(line.v[1]), y |-> asarray(line.v[2]),
          label |-> [none |-> FALSE, text |-> str(line.v[3])]]
    ELSE IF line.k \in {"list", "tuple"} /\ Len(line.v) = 2
    THEN [x |-> asarray(line.v[1]), y |-> asarray(line.v[2]),
          label |-> NoLabel]
    ELSE [x |-> arange(Len(line.v)), y |-> asarray(line), label |-> NoLabel]

\* the lines that are tried, each with the form its caller means: a bare y
\* of numbers, of any length up to MaxLen, as a list, a tuple or an array;
\* (x, y) and (x, y, label) with x and y of two numbers
BareSeqs == UNION {[1 .. n -> LineVals] : n \in 0 .. MaxLen}
Pairs == [1 .. 2 -> LineVals]
Lines ==
    {[form |-> "y", line |-> PyNums(kind, s)] :
        kind \in {"list", "tuple", "ndarray"}, s \in BareSeqs}
    \cup
    {[form |-> "xy",
      line |-> PySeq(kind, <<PyNums("ndarray", a), PyNums("list", b)>>)] :
        kind \in {"list", "tuple"}, a \in Pairs, b \in Pairs}
    \cup
    {[form |-> "xyl",
      line |-> PySeq("tuple", <<PyNums("ndarray", a), PyNums("ndarray", b),
                               PyStr("ref")>>)] :
        a \in Pairs, b \in Pairs}

\* PlotCanvas.draw_lines, for one line: the (x, y, label) it plots
draw_lines ==
    /\ pc = "line_ready"
    /\ out' = to_xy_label(inp.line)
    /\ pc' = "line_done"
    /\ UNCHANGED <<inp, painter>>

LineInit ==
    /\ Idle
    /\ pc = "line_ready"
    /\ out = None
    /\ inp \in Lines

LineNext == draw_lines

LineSpec == LineInit /\ [][LineNext]_vars

(***************************************************************************)
(* load_csv on its own: every file of up to MaxRows rows, each row one of  *)
(* the shapes below.  Field k of row i holds the number 10 * i + k, so the *)
(* rows an import keeps can be told apart.                                 *)
(***************************************************************************)
MaxRows == 3
\* what csv.reader makes of a line: "n" a field float() accepts, "s" one it
\* does not; << >> is an empty line
RowShapes == {<< >>, <<"n">>, <<"s">>, <<"n", "n">>, <<"s", "s">>,
              <<"n", "s">>, <<"s", "n">>, <<"n", "n", "n">>}
Row(shape, i) ==
    [k \in 1 .. Len(shape) |-> IF shape[k] = "n" THEN Num(10 * i + k) ELSE Str]
CsvFiles ==
    UNION {{[exists |-> TRUE, rows |-> [i \in 1 .. n |-> Row(sh[i], i)]] :
               sh \in [1 .. n -> RowShapes]} : n \in 0 .. MaxRows}

\* t, y = self.load_csv(path) of on_open and on_bg_load
import_csv ==
    /\ pc = "csv_ready"
    /\ out' = load_csv(inp)
    /\ pc' = "csv_done"
    /\ UNCHANGED <<inp, painter>>

CsvInit ==
    /\ Idle
    /\ pc = "csv_ready"
    /\ out = None
    /\ inp \in CsvFiles

CsvNext == import_csv

CsvSpec == CsvInit /\ [][CsvNext]_vars

(***************************************************************************)
(* The update flow of CompareTemplateWindow.  pc is "upd_new" while the    *)
(* window is being constructed, "upd_idle" when the event loop waits,      *)
(* "upd_study" while the study's on_update runs, "upd_dead" when an        *)
(* exception has ended the program.  out holds the status bar's message,   *)
(* the activations of on_update_clicked that have not returned (a study    *)
(* may call api.request_update() from inside on_update), the message box   *)
(* shown last, and, as history, the request that ended last.               *)
(***************************************************************************)
\* greatest number of update requests and of nested activations
MaxRequests == 3
MaxDepth == 2
\* what on_update may raise: a class derived from Exception, or one derived
\* from BaseException only (SystemExit, KeyboardInterrupt)
Raised == {"Exception", "BaseException"}
\* a message a study sets through api.set_status during on_update
StudyMsg == "Working"
NoRequest == [trigger |-> "", outcome |-> "none", kind |-> "", began |-> "",
              status |-> "", escaped |-> FALSE]

\* on_update_clicked up to the call of self.study.on_update
on_update_clicked(trigger) ==
    /\ out.n < MaxRequests
    /\ IF ~inp.has_on_update
       THEN /\ out' = [out EXCEPT !.dialog = "Info", !.n = @ + 1,
                          !.last = [NoRequest EXCEPT !.trigger = trigger,
                                        !.outcome = "no_on_update",
                                        !.status = out.status]]
            /\ pc' = IF pc = "upd_new" THEN "upd_idle" ELSE pc
       ELSE /\ out' = [out EXCEPT !.status = "Updating...", !.dialog = "",
                          !.n = @ + 1,
                          !.stack = Append(@, [trigger |-> trigger,
                                               began |-> "Updating..."])]
            /\ pc' = "upd_study"
    /\ UNCHANGED <<inp, painter>>

\* "the first update" at the end of __init__
InitialUpdate == pc = "upd_new" /\ on_update_clicked("init")

\* the Run / Update button, or a study control calling api.request_update
\* from its signal, while the event loop waits
RunUpdate ==
    /\ pc = "upd_idle"
    /\ \E trigger \in {"button", "control"} : on_update_clicked(trigger)

\* api.request_update() called while on_update runs
request_update ==
    /\ pc = "upd_study"
    /\ Len(out.stack) < MaxDepth
    /\ on_update_clicked("control")

\* api.set_status(msg) called by the study while on_update runs
set_status ==
    /\ pc = "upd_study"
    /\ out.status # StudyMsg
    /\ out' = [out EXCEPT !.status = StudyMsg]
    /\ UNCHANGED <<inp, pc, painter>>

\* where control goes when the innermost activation is left
Resume == IF Len(out.stack) = 1 THEN "upd_idle" ELSE "upd_study"

\* self.study.on_update(self.api) returns: self.api.set_status("Updated")
on_update_returns ==
    /\ pc = "upd_study"
    /\ out' = [out EXCEPT !.status = "Updated",
                          !.stack = Front(@),
                          !.last = [trigger |-> Last(out.stack).trigger,
                                    outcome |-> "returned", kind |-> "",
                                    began |-> Last(out.stack).began,
                                    status |-> "Updated",
                                    escaped |-> FALSE]]
    /\ pc' = Resume
    /\ UNCHANGED <<inp, painter>>

\* on_update raising without the handler setting the status
on_update_raises_silent(kind) ==
    /\ pc = "upd_study"
    /\ out' = [out EXCEPT !.stack = Front(@),
                          !.dialog = "on_update() error",
                          !.last = [trigger |-> Last(out.stack).trigger,
                                    outcome |-> "raised", kind |-> kind,
                                    began |-> Last(out.stack).began,
                                    status |-> out.status,
                                    escaped |-> FALSE]]
    /\ pc' = Resume
    /\ UNCHANGED <<inp, painter>>

\* self.study.on_update(self.api) raises: "except Exception" sets the
\* status and shows the message box; any other exception leaves
\* on_update_clicked, to the on_update that called request_update, to the
\* event loop (which goes on or ends the program, as the binding decides),
\* or to the caller of the constructor
on_update_raises(kind) ==
    /\ pc = "upd_study"
    /\ IF kind = "Exception"
       THEN /\ out' = [out EXCEPT !.status = "Error",
                          !.stack = Front(@),
                          !.dialog = "on_update() error",
                          !.last = [trigger |-> Last(out.stack).trigger,
                                    outcome |-> "raised", kind |-> kind,
                                    began |-> Last(out.stack).began,
                                    status |-> "Error",
                                    escaped |-> FALSE]]
            /\ pc' = Resume
       ELSE /\ out' = [out EXCEPT !.stack = Front(@),
                          !.last = [trigger |-> Last(out.stack).trigger,
                                    outcome |-> "raised", kind |-> kind,
                                    began |-> Last(out.stack).began,
                                    status |-> out.status,
                                    escaped |-> TRUE]]
            /\ IF Len(out.stack) > 1 THEN pc' = "upd_study"
               ELSE IF Last(out.stack).trigger = "init" THEN pc' = "upd_dead"
               ELSE pc' \in {"upd_idle", "upd_dead"}
    /\ UNCHANGED <<inp, painter>>

on_clear_clicked ==
    /\ pc = "upd_idle"
    /\ out.status # "Cleared"
    /\ out' = [out EXCEPT !.status = "Cleared"]
    /\ UNCHANGED <<inp, pc, painter>>

UpdateInit ==
    /\ Idle
    /\ pc = "upd_new"
    /\ inp \in [has_on_update : BOOLEAN]
    /\ out = [status |-> "", stack |-> << >>, dialog |-> "", n |-> 0,
              last |-> NoRequest]

UpdateNext ==
    \/ InitialUpdate
    \/ RunUpdate
    \/ request_update
    \/ set_status
    \/ on_update_returns
    \/ \E kind \in Raised : on_update_raises(kind)
    \/ on_clear_clicked

UpdateSpec == UpdateInit /\ [][UpdateNext]_vars

(***************************************************************************)
(* Properties                                                              *)
(***************************************************************************)
\* an undo has just been handled, right after the end of a stroke that was
\* made of begin, motions and end only
UndoAfterStroke ==
    stroke0.stage = "after" /\ ev.op \in {"undo", "undo_empty"}

\* C1, as stated: an undo right after the end of any stroke leaves the
\* Waveform equal to the Waveform before the stroke began.
C1_UndoRestoresAnyStroke ==
    UndoAfterStroke => y = stroke0.s.y

\* C1, amended: an undo right after the end of a stroke that left the
\* Waveform different from its baseline by more than the np.allclose
\* tolerance leaves the Waveform equal to the Waveform before the stroke.
C1_UndoRestoresChangedStroke ==
    (UndoAfterStroke /\ ~allclose(stroke0.s.y, pre.y, ATOL))
        => y = stroke0.s.y

C1_Witness ==
    /\ UndoAfterStroke
    /\ ev.op = "undo"
    /\ stroke0.n >= 1
    /\ ~allclose(stroke0.s.y, pre.y, ATOL)
    /\ y # pre.y

\* C2: an undo that is reversed by a redo (k undos by k redos, a redo by an
\* undo) with no other event in between restores the Waveform, the undo
\* stack and the redo stack to what they were before.
C2_UndoRedoLossless ==
    expect # << >> => Hist = expect[1].h

C2_Witness ==
    /\ expect # << >>
    /\ expect[1].k = 2
    /\ ev.op = "redo"
    /\ y # pre.y
    /\ undo_stack[1] # undo_stack[2]

\* value yk at index k is on the line from (p, y0) to (ix, v), up to the
\* rounding of one division
OnLine(p, y0, ix, v, k, yk) ==
    Abs((yk - y0) * (ix - p) - (v - y0) * (k - p)) < Abs(ix - p)

\* C3: after a continue_stroke whose index ix differs from the last touched
\* index p, in either direction, y[ix] = v, y[p] is as before the call and
\* the samples strictly between are on the line joining the two.
C3_MotionInterpolates ==
    (ev.op = "motion" /\ pre.last_ix # NoIx /\ last_ix # pre.last_ix) =>
        LET p == pre.last_ix
            ix == last_ix
        IN  /\ y[ix] = ev.v
            /\ y[p] = pre.y[p]
            /\ \A k \in Idx :
                  (Min(p, ix) < k /\ k < Max(p, ix))
                      => OnLine(p, pre.y[p], ix, ev.v, k, y[k])

\* C4: begin_stroke, new, a successful load and apply-background leave the
\* redo stack empty, so that a redo right after changes nothing.
C4_EditClearsRedo ==
    ev.op \in {"press", "new", "open", "bg_apply"} =>
        /\ redo_stack = << >>
        /\ redo_result(y, undo_stack, redo_stack) = Hist

C4_Witness ==
    /\ ev.op = "bg_apply"
    /\ pre.redo_stack # << >>

\* C5: continue_stroke changes neither stack; during a stroke the undo stack
\* is as at its begin; at its end the undo stack is as at its begin or has
\* one more entry, the Waveform as it was at the begin.
C5_OneEntryPerStroke ==
    /\ ev.op = "motion" =>
          undo_stack = pre.undo_stack /\ redo_stack = pre.redo_stack
    /\ stroke0.stage = "open" => undo_stack = stroke0.s.undo_stack
    /\ stroke0.stage = "ended" =>
          undo_stack \in {stroke0.s.undo_stack,
                          Append(stroke0.s.undo_stack, stroke0.s.y)}

C5_Witness ==
    /\ stroke0.stage = "ended"
    /\ stroke0.n >= 1
    /\ undo_stack = Append(stroke0.s.undo_stack, stroke0.s.y)
    /\ y # pre.y_before_stroke

\* C6: a load that fails shows the failure and leaves the Waveform, both
\* stacks and the rest of the editor state as before the call.
C6_FailedLoadChangesNothing ==
    ev.op = "open_fail" => (dialog = "Open failed" /\ Cur = pre)

C6_Witness ==
    /\ ev.op = "open_fail"
    /\ ev.file \in DOMAIN Files
    /\ Files[ev.file] = FileBadField
    /\ undo_stack # << >>
    /\ redo_stack # << >>

\* C7: undo on an empty undo stack and redo on an empty redo stack show no
\* error and leave the Waveform, both stacks and the stroke in progress as
\* they were.
C7_EmptyUndoRedoNoOp ==
    ev.op \in {"undo_empty", "redo_empty"} => (dialog = "" /\ Cur = pre)

C7_Witness ==
    /\ ev.op = "undo_empty"
    /\ drawing
    /\ y_before_stroke # None
    /\ y # Zeros

C9_New ==
    /\ ev.op = "new" =>
          /\ undo_stack = Append(pre.undo_stack, pre.y)
          /\ redo_stack = << >>
          /\ y = Zeros
    /\ (ev.op = "undo" /\ ev.after = "new") => y = ev.base

C9_Witness ==
    /\ ev.op = "undo"
    /\ ev.after = "new"
    /\ ev.base # Zeros
    /\ pre.y = Zeros
    /\ Len(pre.undo_stack) >= 2

\* C10: a successful load, copied or resampled, pushes exactly the Waveform
\* it found onto the undo stack and empties the redo stack; an undo right
\* after restores that Waveform.
C10_Load ==
    /\ ev.op = "open" =>
          /\ undo_stack = Append(pre.undo_stack, pre.y)
          /\ redo_stack = << >>
    /\ (ev.op = "undo" /\ ev.after = "open") => y = ev.base

C10_Witness ==
    /\ ev.op = "undo"
    /\ ev.after = "open"
    /\ ev.file \in DOMAIN Files
    /\ Files[ev.file] = FileEnds
    /\ ev.base # Zeros
    /\ pre.y # ev.base

\* the file on_save wrote has a row for every Timeline instant, at that instant
SavedOnGrid ==
    LET r == load_csv(disk)
    IN  r.ok /\ Len(r.t) = N /\ allclose(arr(r.t), T, T_ATOL)

\* C11: a load of the file the last save wrote takes the direct-copy path
\* and leaves the Waveform identical to the Waveform that was saved.
C11_SaveLoadIdentity ==
    (ev.op = "open" /\ ev.file = SavedFile) =>
        /\ SavedOnGrid
        /\ y = saved

\* C12: every handler but a background load that succeeds leaves the
\* Background as it was (stroke begin, motion and end, undo, redo, new, load
\* and save of the signal, apply-background, show/hide, a background load
\* that fails); a Background that is set has exactly N samples.
C12_BackgroundFrame ==
    /\ ev.op # "bg_load" => bg_y = pre.bg_y
    /\ bg_y # None => DOMAIN bg_y = Idx

C12_Witness ==
    /\ ev.op = "bg_toggle"
    /\ ~bg_visible
    /\ bg_y # None
    /\ bg_y # Zeros
    /\ y = bg_y
    /\ undo_stack # << >>

\* C13: in every state the Timeline is the one of the session's start,
\* t[i] = i/FS (2*i half sample periods), strictly increasing; the Waveform
\* and every snapshot on the undo and redo stacks have exactly N samples.
C13_FixedShape ==
    /\ t = T
    /\ DOMAIN t = Idx
    /\ \A i \in Idx : t[i] = 2 * i
    /\ \A i \in Idx : i > 0 => t[i - 1] < t[i]
    /\ DOMAIN y = Idx
    /\ \A k \in DOMAIN undo_stack : DOMAIN undo_stack[k] = Idx
    /\ \A k \in DOMAIN redo_stack : DOMAIN redo_stack[k] = Idx

C13_Witness ==
    /\ ev.op = "undo"
    /\ ev.after = "open"
    /\ ev.file \in DOMAIN Files
    /\ Len(load_csv(Files[ev.file]).t) # N
    /\ undo_stack # << >>
    /\ redo_stack # << >>
    /\ redo_stack[1] # y
    /\ y # Zeros

\* a computation of r has run and shown its result
RDone == pc = "done" /\ out.by \in {"linear", "sine", "tri", "metrics"}
             /\ out.shown

\* C14: each of the four Pearson computations gives NaN if either series
\* has a standard deviation below 1e-12, and a number otherwise.
C14_PearsonDegenerate ==
    RDone =>
        (out.r.nan <=> (std_lt(inp.x, STUDY_EPS, 1)
                          \/ std_lt(inp.y, STUDY_EPS, 1)))

\* the SNR part of the metrics label has been computed
SnrDone == pc = "done" /\ out.by = "metrics" /\ out.shown

\* C15: the SNR is +infinity whenever the error RMS is below the threshold
\* (also when the signal RMS is too), -infinity when the signal RMS is below
\* it and the error RMS is not, and otherwise the finite value of the ratio
\* of the two mean squares, both positive; a result is given in every case.
C15_SnrSentinels ==
    SnrDone =>
        LET err == minus(inp.x, inp.y)
            errZero == rms_lt(err, 1, PAINTER_EPS_INV)
            sigZero == rms_lt(inp.y, 1, PAINTER_EPS_INV)
        IN  /\ out.snr.kind \in {"inf", "-inf", "finite"}
            /\ errZero => out.snr.kind = "inf"
            /\ inp.x = inp.y => out.snr.kind = "inf"
            /\ (sigZero /\ ~errZero) => out.snr.kind = "-inf"
            /\ (~sigZero /\ ~errZero) =>
                  /\ out.snr.kind = "finite"
                  /\ out.snr.sig2 = Dot(inp.y.v, inp.y.v)
                  /\ out.snr.err2 = Dot(err.v, err.v)
                  /\ out.snr.sig2 > 0
                  /\ out.snr.err2 > 0

C15_Witness ==
    /\ SnrDone
    /\ out.snr.kind = "inf"
    /\ inp.x # inp.y
    /\ Sum(inp.y.v) > 0
    /\ rms_lt(inp.y, 1, PAINTER_EPS_INV)

Constant(s) == \A i, j \in DOMAIN s.v : s.v[i] = s.v[j]

\* the threshold of the computation that has run, as en/ed
EpsN == IF out.by = "metrics" THEN 1 ELSE STUDY_EPS
EpsD == IF out.by = "metrics" THEN PAINTER_EPS_INV ELSE 1

FracEq(r, a, b) == r.den > 0 /\ r.num * b = a * r.den

\* C17: with duty 20 % and apex 50 % the pulse at period fraction frac is 0
\* at frac = 0, amplitude * frac / 10 % up to frac = 10 %, amplitude *
\* (20 % - frac) / 10 % from there to frac = 20 %, and exactly 0 for the
\* rest of the period, in every period and for every phase offset.
C17_TrianglePulse ==
    (pc = "tri_done" /\ inp.duty = 20 /\ inp.width = 50) =>
        LET fr == (inp.ft + inp.ph) % TRI_STEPS
        IN  /\ fr = 0 => out.num = 0
            /\ 10 * fr <= TRI_STEPS =>
                  FracEq(out, inp.amp * 10 * fr, TRI_STEPS)
            /\ (TRI_STEPS < 10 * fr /\ 10 * fr < 2 * TRI_STEPS) =>
                  FracEq(out, inp.amp * (2 * TRI_STEPS - 10 * fr), TRI_STEPS)
            /\ 10 * fr >= 2 * TRI_STEPS => out.num = 0

C17_Witness ==
    /\ pc = "tri_done"
    /\ inp.duty = 20
    /\ inp.width = 50
    /\ inp.ft + inp.ph < 0
    /\ 10 * ((inp.ft + inp.ph) % TRI_STEPS) = TRI_STEPS
    /\ FracEq(out, inp.amp, 1)
    /\ inp.amp = 3

\* file number k loads, with another sample count than the Timeline and
\* sample times that increase from the Timeline's first instant to its last
SameRange(k) ==
    /\ k \in DOMAIN Files
    /\ LET r == load_csv(Files[k])
       IN  /\ r.ok
           /\ Len(r.t) # N
           /\ r.t[1] = T[0]
           /\ r.t[Len(r.t)] = T[N - 1]
           /\ \A j \in 1 .. (Len(r.t) - 1) : r.t[j] < r.t[j + 1]

\* w is the piecewise-linear interpolation of the points of file number k
\* at every Timeline instant (up to the rounding of one division), and the
\* imported sample itself at an instant that is an imported sample time
InterpOf(w, k) ==
    LET r == load_csv(Files[k])
    IN  \A i \in Idx :
           /\ \E j \in 1 .. (Len(r.t) - 1) :
                 /\ r.t[j] <= T[i]
                 /\ T[i] <= r.t[j + 1]
                 /\ OnLine(r.t[j], r.y[j], r.t[j + 1], r.y[j + 1], T[i], w[i])
           /\ \A j \in 1 .. Len(r.t) : r.t[j] = T[i] => w[i] = r.y[j]

\* C18: after a load of a series on the Timeline's time range with another
\* sample count, the Waveform (after a background load: the Background) is
\* at every Timeline instant the piecewise-linear interpolation of the
\* imported points, and the imported sample where the instants coincide.
C18_Resampled ==
    /\ (ev.op = "open" /\ SameRange(ev.file)) => InterpOf(y, ev.file)
    /\ (ev.op = "bg_load" /\ SameRange(ev.file)) => InterpOf(bg_y, ev.file)

C18_Witness ==
    /\ ev.op = "bg_load"
    /\ SameRange(ev.file)
    /\ Files[ev.file] = FileBetween
    /\ bg_y[0] # bg_y[1]
    /\ bg_y[1] # bg_y[N - 1]
    /\ y # Zeros
    /\ y # bg_y

\* the numbers of a sequence value
NumsOf(a) == [i \in 1 .. Len(a.v) |-> a.v[i].v]

\* C19: a bare y of any length (2 and 3 included) comes back as
\* x = 0, 1, ..., len(y)-1, y unchanged and no label; (x, y, label) and
\* (x, y) come back with their own x and y.
C19_LineForms ==
    pc = "line_done" =>
        /\ inp.form = "y" =>
              /\ out.x = arange(Len(inp.line.v))
              /\ out.y = [dim |-> 1, v |-> NumsOf(inp.line)]
              /\ out.label.none
        /\ inp.form \in {"xy", "xyl"} =>
              /\ out.x = [dim |-> 1, v |-> NumsOf(inp.line.v[1])]
              /\ out.y = [dim |-> 1, v |-> NumsOf(inp.line.v[2])]

\* the Waveform that on_undo, called until the undo stack is empty, leaves
RECURSIVE UndoAll(_, _, _)
UndoAll(yy, undo, redo) ==
    IF undo = << >> THEN yy
    ELSE LET r == undo_result(yy, undo, redo)
         IN  UndoAll(r.y, r.undo_stack, r.redo_stack)

\* C20, for the states in which no stroke is in progress (whatever events
\* came between the begin and the end of the strokes before): undo, called
\* until the undo stack is empty, leaves the all-zero Waveform.
C20_UndoAllToZero ==
    ~drawing => UndoAll(y, undo_stack, redo_stack) = Zeros

\* C21: when a stroke ends (on_release with a stroke in progress) the redo
\* stack is empty, whatever events came between its begin and its end.
C21_StrokeEndRedoEmpty ==
    ev.op = "release" => redo_stack = << >>

\* C22: the end of a stroke pushes the stroke baseline onto the undo stack
\* exactly when the Waveform differs from the baseline by more than the
\* np.allclose tolerance and pushes nothing otherwise; either way it clears
\* the baseline and the last touched index and leaves the Waveform and the
\* redo stack alone.  A release with no stroke in progress changes nothing.
C22_StrokeEnd ==
    /\ ev.op = "release" =>
          /\ pre.drawing
          /\ undo_stack =
                IF ~allclose(pre.y_before_stroke, pre.y, ATOL)
                THEN Append(pre.undo_stack, pre.y_before_stroke)
                ELSE pre.undo_stack
          /\ y_before_stroke = None
          /\ last_ix = NoIx
          /\ ~drawing
          /\ y = pre.y
          /\ redo_stack = pre.redo_stack
    /\ ev.op = "release_idle" => ~pre.drawing /\ Cur = pre

\* a stroke that ended with a push, after one that ended without
C22_Witness ==
    /\ ev.op = "release"
    /\ undo_stack = Append(pre.undo_stack, pre.y_before_stroke)
    /\ pre.y_before_stroke # pre.y
    /\ pre.last_ix # NoIx

\* the sample nearest to the instant x of the pointer (x in half sample
\* periods, sample i at 2 * i), a tie going to the even index
Nearest(x) ==
    CHOOSE i \in Idx : \A j \in Idx \ {i} :
        \/ Abs(2 * i - x) < Abs(2 * j - x)
        \/ Abs(2 * i - x) = Abs(2 * j - x) /\ i % 2 = 0

\* C23: the begin of a stroke at (x, v) sets the sample nearest to x, clamped
\* to the Timeline, to v, changes no other sample and records that index as
\* the last touched one; a stroke that is a begin and an end alone changes
\* only that sample.
C23_StrokeBegin ==
    /\ ev.op = "press" =>
          /\ y = [pre.y EXCEPT ![Nearest(ev.x)] = ev.v]
          /\ last_ix = Nearest(ev.x)
    /\ (ev.op = "release" /\ stroke0.stage = "ended" /\ stroke0.n = 0) =>
          /\ pre.last_ix \in Idx
          /\ \A j \in Idx \ {pre.last_ix} : y[j] = stroke0.s.y[j]

\* a press beyond the Timeline's end on a Waveform that is not flat
C23_Witness ==
    /\ ev.op = "press"
    /\ ev.x > T[N - 1]
    /\ pre.y # Zeros
    /\ y # pre.y

\* C24: in every reachable state a stroke baseline is held exactly when a
\* stroke is in progress, and the last touched index is unset whenever no
\* stroke is in progress; a motion event with no stroke in progress changes
\* neither the Waveform nor either stack.
C24_StrokeState ==
    /\ (y_before_stroke # None) <=> drawing
    /\ ~drawing => last_ix = NoIx
    /\ drawing => last_ix \in Idx
    /\ ev.op = "motion_idle" =>
          /\ ~pre.drawing
          /\ y = pre.y
          /\ undo_stack = pre.undo_stack
          /\ redo_stack = pre.redo_stack

\* a motion with no stroke in progress after a stroke that changed a sample
C24_Witness ==
    /\ ev.op = "motion_idle"
    /\ undo_stack # << >>
    /\ y # Zeros
    /\ y_before_stroke = None

\* the entries two states of a stack have in common are equal
StackKept(old, new) ==
    \A i \in 1 .. Min(Len(old), Len(new)) : new[i] = old[i]

\* C25: a snapshot on the undo or redo stack never changes after it is
\* pushed, and an edit in place of the Waveform alters no stored snapshot,
\* not the stroke baseline and not the Background: every handler leaves the
\* entries that stay on a stack as they were, a pushed snapshot holds the
\* Waveform of before the handler's write, the baseline of a stroke stays
\* the Waveform of before its begin, and only a Background load changes the
\* Background.
C25_NoAliasing ==
    /\ StackKept(pre.undo_stack, undo_stack)
    /\ StackKept(pre.redo_stack, redo_stack)
    /\ ev.op \in {"new", "open", "bg_apply", "redo"} =>
          undo_stack = Append(pre.undo_stack, pre.y)
    /\ ev.op = "undo" => redo_stack = Append(pre.redo_stack, pre.y)
    /\ ev.op = "press" => y_before_stroke = pre.y
    /\ (pre.drawing /\ drawing) => y_before_stroke = pre.y_before_stroke
    /\ stroke0.stage = "open" => y_before_stroke = stroke0.s.y
    /\ (ev.op = "release" /\ Len(undo_stack) > Len(pre.undo_stack)) =>
          Last(undo_stack) = pre.y_before_stroke
    /\ ev.op # "bg_load" => bg_y = pre.bg_y

\* a drag that rewrote samples in place while a snapshot and the stroke
\* baseline were held
C25_Witness ==
    /\ ev.op = "motion"
    /\ y # pre.y
    /\ undo_stack # << >>
    /\ y_before_stroke # None
    /\ y_before_stroke # y

\* a row both of whose first two fields float() accepts
IsData(row) == HasTwo(row) /\ is_float(row[1]) /\ is_float(row[2])

\* the rows of file f an import has to treat as data: the first row when its
\* first two fields are numbers, and every later row of at least two fields
DataRows(f) ==
    IF f.rows = << >> THEN << >>
    ELSE (IF IsData(f.rows[1]) THEN <<f.rows[1]>> ELSE << >>)
             \o SelectSeq(Tail(f.rows), HasTwo)

\* the import of f succeeded with exactly the rows rs
Imported(rs) ==
    /\ out.ok
    /\ out.t = [i \in 1 .. Len(rs) |-> rs[i][1].val]
    /\ out.y = [i \in 1 .. Len(rs) |-> rs[i][2].val]

\* every row of rs parses, and there is one
Parses(rs) == rs # << >> /\ \A i \in 1 .. Len(rs) : IsData(rs[i])

\* C26: a row of fewer than 2 fields is skipped without failing the import
\* wherever it occurs, the first row included: a file with such a row whose
\* remaining data rows parse is imported, with exactly those rows.
C26_ShortRowSkipped ==
    (/\ pc = "csv_done"
     /\ \E i \in 1 .. Len(inp.rows) : ~HasTwo(inp.rows[i])
     /\ Parses(DataRows(inp)))
        => Imported(DataRows(inp))

\* C27: the first row is kept as data exactly when both of its first two
\* fields parse as floats and is discarded otherwise, and every later row
\* of at least 2 fields is treated as data: the import succeeds with
\* exactly those rows when they all parse, and fails when one does not or
\* there is none.
C27_HeaderDetection ==
    pc = "csv_done" =>
        IF Parses(DataRows(inp)) THEN Imported(DataRows(inp)) ELSE ~out.ok

\* C29: for every duty and apex input, those at or below 0 % and at or
\* above 100 % included, the triangle pulse never divides by zero, every
\* sample lies between 0 and the amplitude (which is not negative), and
\* every sample whose period fraction is at or beyond the clamped duty is
\* exactly 0.
C29_TrianglePulseRange ==
    pc = "tri_done" =>
        /\ tri_duty(inp.duty) > 0
        /\ out.den > 0
        /\ 0 <= out.num
        /\ out.num <= inp.amp * out.den
        /\ tri_frac(inp.ft + inp.ph) * 1000
              >= clip(inp.duty * 10, 1, 999) * TRI_STEPS
             => out.num = 0

\* a sample on the falling edge, for a duty above 100 % and an apex below 0 %
C29_Witness ==
    /\ pc = "tri_done"
    /\ inp.duty > 100
    /\ inp.width < 0
    /\ tri_frac(inp.ft + inp.ph) * 2 > TRI_STEPS
    /\ 0 < out.num
    /\ out.num < inp.amp * out.den

\* C28: apply-background with no Background changes nothing (no snapshot,
\* the redo stack kept, the Waveform unchanged); with a Background it pushes
\* the Waveform of before the call, clears the redo stack and sets the
\* Waveform to the Background, so that an undo right after it restores the
\* Waveform of before the call.
C28_ApplyBackground ==
    /\ ev.op = "bg_apply_none" =>
          /\ pre.bg_y = None
          /\ Cur = pre
    /\ ev.op = "bg_apply" =>
          /\ pre.bg_y # None
          /\ undo_stack = Append(pre.undo_stack, pre.y)
          /\ redo_stack = << >>
          /\ y = pre.bg_y
    /\ (ev.op = "undo" /\ ev.after = "bg_apply") => y = ev.base

\* an undo right after an apply-background that had changed the Waveform
C28_Witness ==
    /\ ev.op = "undo"
    /\ ev.after = "bg_apply"
    /\ pre.y = bg_y
    /\ y # pre.y
    /\ redo_stack = <<pre.y>>

\* the exceptions "except Exception" catches
Caught == {"Exception"}

\* C30, as stated: every update request sets the status to "Updating..." and
\* ends with the status "Updated" if on_update returned and "Error" if it
\* raised; the exception does not leave on_update_clicked, and the status
\* is not left at "Updating..." when no update is running.
C30_UpdateStatus ==
    /\ out.last.outcome \in {"returned", "raised"} =>
          out.last.began = "Updating..."
    /\ out.last.outcome = "returned" => out.last.status = "Updated"
    /\ out.last.outcome = "raised" =>
          out.last.status = "Error" /\ ~out.last.escaped
    /\ pc \in {"upd_idle", "upd_dead"} => out.status # "Updating..."

\* C30, amended: the same for an on_update that returns or raises an
\* exception derived from Exception; the status is left at "Updating..."
\* only by an exception that is not derived from Exception.
C30_UpdateStatusOfException ==
    /\ out.last.outcome \in {"returned", "raised"} =>
          out.last.began = "Updating..."
    /\ out.last.outcome = "returned" => out.last.status = "Updated"
    /\ (out.last.outcome = "raised" /\ out.last.kind \in Caught) =>
          out.last.status = "Error" /\ ~out.last.escaped
    /\ (pc \in {"upd_idle", "upd_dead"} /\ out.status = "Updating...") =>
          out.last.outcome = "raised" /\ out.last.kind \notin Caught

\* a request made from inside on_update ended with an exception that was
\* caught, while the outer on_update is still running
C30_Witness ==
    /\ pc = "upd_study"
    /\ out.last.outcome = "raised"
    /\ out.last.kind = "Exception"
    /\ out.last.trigger = "control"
    /\ out.status = "Error"
    /\ out.dialog # ""

====
